---- MODULE Spec2Model ----
(***************************************************************************)
(* Model of simupy/matrices.py: the five matrix helpers                    *)
(*   construct_explicit_matrix, matrix_subs, block_matrix,                 *)
(*   matrix_callable_from_vector_trajectory, system_from_matrix_DE.        *)
(*                                                                         *)
(* Every helper is a pure function of its arguments.  One specification    *)
(* per helper draws the arguments from bounded sets, applies the helper    *)
(* and records what the call returned or raised.                           *)
(*                                                                         *)
(* Values.  A symbolic expression is the string of its printed name        *)
(* (sympy symbols are equal exactly when their names and kinds are equal); *)
(* the zero expression is "0".  A matrix is a record                       *)
(*   [kind |-> "Matrix", rows, cols, e]  with e[<<i, j>>], 0-based.        *)
(* A raised exception is [kind |-> "raise", exc |-> <name>].               *)
(***************************************************************************)
EXTENDS Integers, Sequences, FiniteSets, TLC

VARIABLES pc, args, closure, ret

vars == <<pc, args, closure, ret>>

None == [kind |-> "None"]

Raise(e) == [kind |-> "raise", exc |-> e]

Zero == "0"

Range0(n) == 0 .. (n - 1)

Pos(n, m) == Range0(n) \X Range0(m)

Matrix(n, m, f) == [kind |-> "Matrix", rows |-> n, cols |-> m, e |-> f]

Entries(M) == {M.e[p] : p \in DOMAIN M.e}

Init ==
    /\ pc = "start"
    /\ args = None
    /\ closure = None
    /\ ret = None

(***************************************************************************)
(* construct_explicit_matrix                                               *)
(***************************************************************************)
MaxN == 9

\* The smallest size at which two positions of the upper triangle print the
\* same index digits: (1,111) and (11,11) both give 1111.
WideN == 111

Sizes == (1 .. MaxN) \cup {WideN}

\* sp.symbols(s) is the symbol named s; dynamicsymbols(s) is the function
\* of time named s.
symbol_func(dynamic, s) == IF dynamic THEN s \o "(t)" ELSE s

\* name+'_{}{}'.format(r, c)
format(name, r, c) == name \o "_" \o ToString(r) \o ToString(c)

\* sp.diag(*[symbol_func(name_{i+1}{i+1}) for i in range(m)])
diag(name, m, dynamic) ==
    Matrix(m, m, [p \in Pos(m, m) |->
        IF p[1] = p[2]
        THEN symbol_func(dynamic, format(name, p[1] + 1, p[1] + 1))
        ELSE Zero])

\* sp.Matrix([[symbol_func(name_{j+1}{i+1}) for i in range(m)] for j in range(n)])
full(name, n, m, dynamic) ==
    Matrix(n, m, [p \in Pos(n, m) |->
        symbol_func(dynamic, format(name, p[1] + 1, p[2] + 1))])

\* Mutant: the mirror loop copies the lower triangle over the upper one.
symmetrize_lower(M) ==
    Matrix(M.rows, M.cols, [p \in DOMAIN M.e |->
        IF p[1] < p[2] THEN M.e[<<p[2], p[1]>>] ELSE M.e[p]])

\* for i in range(1, m): for j in range(i): matrix[i, j] = matrix[j, i]
\* Only entries with i > j are written and only entries with j < i are read,
\* so no read sees a written entry and the loop is this one assignment.
symmetrize(M) ==
    Matrix(M.rows, M.cols, [p \in DOMAIN M.e |->
        IF p[1] > p[2] THEN M.e[<<p[2], p[1]>>] ELSE M.e[p]])

\* Mutant: symmetric is tested before diagonal.
construct_symmetric_first(name, n, m, symmetric, diagonal, dynamic) ==
    IF n # m /\ (diagonal \/ symmetric)
    THEN Raise("ValueError")
    ELSE IF symmetric
         THEN symmetrize(full(name, n, m, dynamic))
         ELSE IF diagonal THEN diag(name, m, dynamic)
              ELSE full(name, n, m, dynamic)

construct_explicit_matrix(name, n, m, symmetric, diagonal, dynamic) ==
    IF n # m /\ (diagonal \/ symmetric)
    THEN Raise("ValueError")
    ELSE IF diagonal
         THEN diag(name, m, dynamic)
         ELSE IF symmetric
              THEN symmetrize(full(name, n, m, dynamic))
              ELSE full(name, n, m, dynamic)

Construct ==
    /\ pc = "start"
    /\ \E n \in Sizes, m \in Sizes, symmetric \in BOOLEAN,
          diagonal \in BOOLEAN, dynamic \in BOOLEAN :
          /\ args' = [name |-> "P", n |-> n, m |-> m, symmetric |-> symmetric,
                      diagonal |-> diagonal, dynamic |-> dynamic]
          /\ ret' = construct_explicit_matrix("P", n, m, symmetric, diagonal, dynamic)
    /\ pc' = "constructed"
    /\ UNCHANGED closure

NextConstruct == Construct

SpecConstruct == Init /\ [][NextConstruct]_vars

\* The printed name of the symbol the source creates for 1-based (r, c).
SymbolAt(r, c) == symbol_func(args.dynamic, format(args.name, r, c))

IsSymmetric(M) ==
    \A p \in DOMAIN M.e : p[1] # p[2] => M.e[p] = M.e[<<p[2], p[1]>>]

MirrorsUpper(M) ==
    \A p \in DOMAIN M.e : p[1] > p[2] => M.e[p] = SymbolAt(p[2] + 1, p[1] + 1)

SymmetricCall ==
    pc = "constructed" /\ args.n = args.m /\ args.symmetric /\ ~args.diagonal

\* C4 as stated: for EVERY n = m, symmetric=True gives M[i,j] = M[j,i], each
\* below-diagonal entry the symbol of the mirrored above-diagonal position,
\* and exactly n(n+1)/2 distinct symbols.
C4_SymmetricEveryN ==
    SymmetricCall =>
        /\ ret.kind = "Matrix" /\ ret.rows = args.n /\ ret.cols = args.n
        /\ IsSymmetric(ret)
        /\ MirrorsUpper(ret)
        /\ 2 * Cardinality(Entries(ret)) = args.n * (args.n + 1)

\* C4 amended: the same for every n = m <= 110, the sizes whose index digits
\* <row><col> are unambiguous over the upper triangle; for every n the matrix
\* is symmetric and mirrors the upper triangle.
C4_SymmetricUnambiguous ==
    SymmetricCall =>
        /\ ret.kind = "Matrix" /\ ret.rows = args.n /\ ret.cols = args.n
        /\ IsSymmetric(ret)
        /\ MirrorsUpper(ret)
        /\ args.n <= 110 => 2 * Cardinality(Entries(ret)) = args.n * (args.n + 1)

C4_Witness ==
    SymmetricCall /\ args.n = 3 /\ ret.kind = "Matrix"
        /\ ret.e[<<2, 0>>] = ret.e[<<0, 2>>] /\ Cardinality(Entries(ret)) = 6

\* C8: for every n = m, diagonal=True (with or without symmetric=True) gives
\* exactly n distinct symbols, <name>_<k><k> at diagonal position k, and the
\* zero expression everywhere off the diagonal.
C8_Diagonal ==
    (pc = "constructed" /\ args.n = args.m /\ args.diagonal) =>
        /\ ret.kind = "Matrix" /\ ret.rows = args.n /\ ret.cols = args.n
        /\ \A p \in DOMAIN ret.e :
              ret.e[p] = IF p[1] = p[2] THEN SymbolAt(p[1] + 1, p[1] + 1) ELSE Zero
        /\ Cardinality(Entries(ret) \ {Zero}) = args.n
        /\ Cardinality({SymbolAt(k, k) : k \in 1 .. args.n}) = args.n

C8_Witness ==
    /\ pc = "constructed" /\ args.n = 3 /\ args.m = 3
    /\ args.diagonal /\ args.symmetric
    /\ ret.kind = "Matrix" /\ ret.e[<<1, 1>>] = SymbolAt(2, 2)
    /\ ret.e[<<0, 1>>] = Zero

(***************************************************************************)
(* matrix_subs                                                             *)
(*                                                                         *)
(* Python containers: [kind |-> "tuple" | "list", items |-> <sequence>]    *)
(* and [kind |-> "dict", items |-> <sequence of <<key, value>>>].          *)
(***************************************************************************)
MaxCells == 4

\* The shapes of the matrices the calls are tried on.
Shapes == {s \in (1 .. MaxCells) \X (1 .. MaxCells) : s[1] * s[2] <= MaxCells}

\* The shapes of the second pair of a two-pair call.
SmallShapes == {<<1, 1>>, <<1, 2>>}

Tuple(items) == [kind |-> "tuple", items |-> items]

List(items) == [kind |-> "list", items |-> items]

Dict(items) == [kind |-> "dict", items |-> items]

Expr(name) == [kind |-> "Expr", name |-> name]

\* The positions of an n x m matrix in row-major order:
\* for i in range(n) for j in range(m).
RowMajor(n, m) == [k \in 1 .. n * m |-> <<(k - 1) \div m, (k - 1) % m>>]

\* obj[k] for a Python container or a sympy matrix (flat index).  The keys
\* of a dict of substitutions are matrices, so the integer k is never a key.
getitem(obj, k) ==
    IF obj.kind \in {"tuple", "list"}
    THEN IF k < Len(obj.items) THEN obj.items[k + 1] ELSE Raise("IndexError")
    ELSE IF obj.kind = "dict"
         THEN Raise("KeyError")
         ELSE IF obj.kind = "Matrix"
              THEN IF k < obj.rows * obj.cols
                   THEN Expr(obj.e[RowMajor(obj.rows, obj.cols)[k + 1]])
                   ELSE Raise("IndexError")
              ELSE Raise("TypeError")

\* Mutant: every position is emitted, zero source entries included.
NonZero_unfiltered(A) == RowMajor(A.rows, A.cols)

\* for i in range(sub[0].shape[0]) for j in range(sub[0].shape[1])
\*     if sub[0][i, j] != 0
NonZero(A) == SelectSeq(RowMajor(A.rows, A.cols), LAMBDA p : A.e[p] # Zero)

\* What the comprehension yields for one sub, or the exception it stops on:
\* sub[0].shape is read first; sub[1][i, j] is read only at a position whose
\* source entry is nonzero.
SubPairs(sub) ==
    LET s0 == getitem(sub, 0)
    IN  IF s0.kind = "raise" THEN s0
        ELSE IF s0.kind # "Matrix" THEN Raise("AttributeError")
        ELSE LET nz == NonZero(s0)
                 s1 == getitem(sub, 1)
             IN  IF nz = <<>> THEN Tuple(<<>>)
                 ELSE IF s1.kind = "raise" THEN s1
                 ELSE IF s1.kind # "Matrix"
                      THEN Raise(IF s1.kind = "dict" THEN "KeyError" ELSE "TypeError")
                 ELSE IF \E k \in 1 .. Len(nz) : nz[k] \notin DOMAIN s1.e
                      THEN Raise("IndexError")
                 ELSE Tuple([k \in 1 .. Len(nz) |-> <<s0.e[nz[k]], s1.e[nz[k]]>>])

\* The pairs of all subs in order; the first exception ends the iteration.
RECURSIVE AllPairs(_)
AllPairs(subs) ==
    IF subs = <<>> THEN Tuple(<<>>)
    ELSE LET head == SubPairs(subs[1])
         IN  IF head.kind = "raise" THEN head
             ELSE LET rest == AllPairs(Tail(subs))
                  IN  IF rest.kind = "raise" THEN rest
                      ELSE Tuple(head.items \o rest.items)

\* A dict built from key/value pairs in order: a repeated key keeps its first
\* place and takes the last value.
RECURSIVE DictOf(_)
DictOf(pairs) ==
    IF pairs = <<>> THEN <<>>
    ELSE LET init == DictOf(SubSeq(pairs, 1, Len(pairs) - 1))
             last == pairs[Len(pairs)]
         IN  IF \E q \in 1 .. Len(init) : init[q][1] = last[1]
             THEN [q \in 1 .. Len(init) |->
                      IF init[q][1] = last[1] THEN last ELSE init[q]]
             ELSE Append(init, last)

\* subs is the tuple of positional arguments (*subs).
matrix_subs(subs) ==
    LET subs1 == IF Len(subs.items) = 2
                    /\ subs.items[1].kind \notin {"list", "tuple", "dict"}
                 THEN List(<<subs>>)
                 ELSE subs
    IN  IF subs1.kind \in {"list", "tuple"}
        THEN AllPairs(subs1.items)
        ELSE IF subs1.kind = "dict"
             THEN LET r == AllPairs([q \in 1 .. Len(subs1.items) |->
                                        Tuple(subs1.items[q])])
                  IN  IF r.kind = "raise" THEN r ELSE Dict(DictOf(r.items))
             ELSE None

\* The k-th source matrix: a distinct symbol at every position outside zeros.
Src(k, shape, zeros) ==
    Matrix(shape[1], shape[2], [p \in Pos(shape[1], shape[2]) |->
        IF p \in zeros THEN Zero
        ELSE "a" \o ToString(k) \o "_" \o ToString(p[1] + 1) \o ToString(p[2] + 1)])

\* The k-th replacement matrix: a distinct expression at every position.
Dst(k, shape) ==
    Matrix(shape[1], shape[2], [p \in Pos(shape[1], shape[2]) |->
        "b" \o ToString(k) \o "_" \o ToString(p[1] + 1) \o ToString(p[2] + 1)])

Forms == {"pair", "varargs", "sequence", "mapping"}

\* The positional arguments of a call in the given form.
CallArgs(form, pairs) ==
    LET tuples == [q \in 1 .. Len(pairs) |-> Tuple(pairs[q])]
    IN  CASE form = "pair"     -> Tuple(pairs[1])
          [] form = "varargs"  -> Tuple(tuples)
          [] form = "sequence" -> Tuple(<<List(tuples)>>)
          [] form = "mapping"  -> Tuple(<<Dict(pairs)>>)

Subs ==
    /\ pc = "start"
    /\ \E form \in Forms, sa \in Shapes, sb \in Shapes, two \in BOOLEAN,
          s2 \in SmallShapes :
          \E za \in SUBSET Pos(sa[1], sa[2]), z2 \in SUBSET Pos(s2[1], s2[2]) :
              LET first  == <<Src(1, sa, za), Dst(1, sb)>>
                  second == <<Src(2, s2, z2), Dst(2, s2)>>
                  pairs  == IF two THEN <<first, second>> ELSE <<first>>
              IN  /\ form = "pair" => ~two
                  /\ ~two => (s2 = <<1, 1>> /\ z2 = {})
                  /\ args' = [form |-> form, pairs |-> pairs]
                  /\ ret' = matrix_subs(CallArgs(form, pairs))
    /\ pc' = "substituted"
    /\ UNCHANGED closure

NextSubs == Subs

SpecSubs == Init /\ [][NextSubs]_vars

SameShape(pair) ==
    pair[1].rows = pair[2].rows /\ pair[1].cols = pair[2].cols

\* Position p comes before position q in row-major order.
Before(p, q) == p[1] < q[1] \/ (p[1] = q[1] /\ p[2] < q[2])

NonZeroPos(A) == {p \in DOMAIN A.e : A.e[p] # Zero}

\* items holds exactly one pair (A[p], B[p]) per nonzero position of A, in
\* row-major order, and nothing else.
IsCorrespondence(items, A, B) ==
    /\ Len(items) = Cardinality(NonZeroPos(A))
    /\ \A p \in NonZeroPos(A) :
          \E k \in 1 .. Len(items) : items[k] = <<A.e[p], B.e[p]>>
    /\ \A k, l \in 1 .. Len(items) :
          k < l => \E p, q \in NonZeroPos(A) :
                      /\ Before(p, q)
                      /\ items[k] = <<A.e[p], B.e[p]>>
                      /\ items[l] = <<A.e[q], B.e[q]>>

IsDiagonal(A) ==
    A.rows = A.cols /\ \A p \in DOMAIN A.e : (A.e[p] = Zero) <=> (p[1] # p[2])

PairCall == pc = "substituted" /\ args.form = "pair" /\ SameShape(args.pairs[1])

\* C7: for a same-shape pair (A, B) matrix_subs returns exactly one pair
\* (A[i,j], B[i,j]) per position with A[i,j] nonzero, in row-major order, and
\* none for a zero position: n*m pairs without zeros, n pairs for a diagonal A.
C7_NonZeroPairs ==
    PairCall =>
        LET A == args.pairs[1][1]
            B == args.pairs[1][2]
        IN  /\ ret.kind = "tuple"
            /\ IsCorrespondence(ret.items, A, B)
            /\ NonZeroPos(A) = DOMAIN A.e => Len(ret.items) = A.rows * A.cols
            /\ IsDiagonal(A) => Len(ret.items) = A.rows

C7_Witness ==
    /\ PairCall
    /\ IsDiagonal(args.pairs[1][1]) /\ args.pairs[1][1].rows = 2
    /\ ret = Tuple(<<<<"a1_11", "b1_11">>, <<"a1_22", "b1_22">>>>)

\* The correspondence the matrix pairs of the call stand for.
RECURSIVE ExpectedPairs(_)
ExpectedPairs(pairs) ==
    IF pairs = <<>> THEN <<>>
    ELSE LET A == pairs[1][1]
             B == pairs[1][2]
             nz == SelectSeq(RowMajor(A.rows, A.cols), LAMBDA p : A.e[p] # Zero)
         IN  [k \in 1 .. Len(nz) |-> <<A.e[nz[k]], B.e[nz[k]]>>]
                 \o ExpectedPairs(Tail(pairs))

\* C5: the single-pair, sequence and keyed-mapping call forms all succeed and
\* give the same correspondence; the sequence form returns a sequence of
\* 2-tuples and the mapping form a mapping from source to replacement entry.
C5_ThreeForms ==
    (/\ pc = "substituted"
     /\ args.form \in {"pair", "sequence", "mapping"}
     /\ \A q \in 1 .. Len(args.pairs) : SameShape(args.pairs[q])) =>
        /\ ret.kind = IF args.form = "mapping" THEN "dict" ELSE "tuple"
        /\ ret.items = ExpectedPairs(args.pairs)

\* C9: a pair whose two matrices differ in shape makes the call fail; no
\* correspondence is returned from a truncated or padded replacement matrix.
C9_MismatchRaises ==
    (pc = "substituted" /\ args.form = "pair" /\ ~SameShape(args.pairs[1])) =>
        ret.kind = "raise"

(***************************************************************************)
(* block_matrix                                                            *)
(***************************************************************************)
MaxGrid == 3

MaxBlock == 2

\* Matrix.row_join(self, other): self with the columns of other appended.
row_join(A, B) ==
    IF A.rows # B.rows THEN Raise("ShapeError")
    ELSE Matrix(A.rows, A.cols + B.cols, [p \in Pos(A.rows, A.cols + B.cols) |->
             IF p[2] < A.cols THEN A.e[p] ELSE B.e[<<p[1], p[2] - A.cols>>]])

\* Matrix.col_join(self, other): self with the rows of other appended.
col_join(A, B) ==
    IF A.cols # B.cols THEN Raise("ShapeError")
    ELSE Matrix(A.rows + B.rows, A.cols, [p \in Pos(A.rows + B.rows, A.cols) |->
             IF p[1] < A.rows THEN A.e[p] ELSE B.e[<<p[1] - A.rows, p[2]>>]])

\* sp.Matrix.row_join(*tuple(mat for mat in row)): the unbound method takes
\* self and other, so any other number of matrices is a TypeError.
call_row_join(row) ==
    IF Len(row) # 2 THEN Raise("TypeError") ELSE row_join(row[1], row[2])

\* sp.Matrix.col_join(*tuple(... for row in blocks))
call_col_join(rows) ==
    IF Len(rows) # 2 THEN Raise("TypeError") ELSE col_join(rows[1], rows[2])

\* The rows are joined in order while the argument tuple is built; the first
\* exception ends the call before col_join is entered.
block_matrix(blocks) ==
    LET joined == [r \in 1 .. Len(blocks) |-> call_row_join(blocks[r])]
        failed == {r \in 1 .. Len(blocks) : joined[r].kind = "raise"}
    IN  IF failed # {}
        THEN joined[CHOOSE r \in failed : \A q \in failed : r <= q]
        ELSE call_col_join(joined)

\* The block at grid position (r, c): a distinct symbol at every position.
Block(r, c, h, w) ==
    Matrix(h, w, [p \in Pos(h, w) |->
        "m" \o ToString(r) \o ToString(c) \o "_"
            \o ToString(p[1] + 1) \o ToString(p[2] + 1)])

BlockMatrix ==
    /\ pc = "start"
    /\ \E R \in 1 .. MaxGrid, C \in 1 .. MaxGrid :
          \E heights \in [1 .. R -> 1 .. MaxBlock], widths \in [1 .. C -> 1 .. MaxBlock] :
              LET blocks == [r \in 1 .. R |-> [c \in 1 .. C |->
                                Block(r, c, heights[r], widths[c])]]
              IN  /\ args' = [blocks |-> blocks, heights |-> heights, widths |-> widths]
                  /\ ret' = block_matrix(blocks)
    /\ pc' = "joined"
    /\ UNCHANGED closure

NextBlock == BlockMatrix

SpecBlock == Init /\ [][NextBlock]_vars

RECURSIVE Sum(_, _)
Sum(f, k) == IF k = 0 THEN 0 ELSE f[k] + Sum(f, k - 1)

\* Every entry of every block sits at its block-offset position in M.
IsBlockLayout(M, blocks, heights, widths) ==
    /\ M.kind = "Matrix"
    /\ M.rows = Sum(heights, Len(heights))
    /\ M.cols = Sum(widths, Len(widths))
    /\ \A r \in 1 .. Len(heights), c \in 1 .. Len(widths) :
          \A p \in DOMAIN blocks[r][c].e :
              M.e[<<Sum(heights, r - 1) + p[1], Sum(widths, c - 1) + p[2]>>]
                  = blocks[r][c].e[p]

\* C6: for every grid of R >= 1 rows of C >= 1 compatible blocks, block_matrix
\* returns the matrix holding every entry of every block at its block offset.
C6_EveryGrid ==
    pc = "joined" => IsBlockLayout(ret, args.blocks, args.heights, args.widths)

(***************************************************************************)
(* system_from_matrix_DE                                                   *)
(***************************************************************************)
NumSyms == 3

\* The symbols a state matrix is filled from.
Syms == {"x" \o ToString(k) : k \in 1 .. NumSyms}

\* sp.flatten(M.tolist()): the entries row by row.
flatten(M) ==
    [k \in 1 .. M.rows * M.cols |-> M.e[RowMajor(M.rows, M.cols)[k]]]

\* list.index(x), 0-based, for an x that occurs in the list.
index(list, x) ==
    (CHOOSE k \in 1 .. Len(list) :
        list[k] = x /\ \A l \in 1 .. Len(list) : list[l] = x => k <= l) - 1

\* Mutant: the flattened list is kept as it is, repeated entries included.
list_set_keep(seq) == {seq}

\* list(set(seq)): the distinct elements, in the iteration order of a set of
\* sympy objects.  That order follows the objects' hashes, which derive from
\* string hashes the interpreter salts per process, so it can be any order.
list_set(seq) ==
    LET S == {seq[k] : k \in 1 .. Len(seq)}
    IN  {f \in [1 .. Cardinality(S) -> S] : \A x \in S : \E k \in DOMAIN f : f[k] = x}

\* Mutant: an entry of vec_DE that was written is not written again.
RECURSIVE fill_vec_DE_first(_, _, _, _)
fill_vec_DE_first(mat_DE, mat_var, vec_var, k) ==
    IF k = 0 THEN [q \in 1 .. Len(vec_var) |-> Zero]
    ELSE LET prev == fill_vec_DE_first(mat_DE, mat_var, vec_var, k - 1)
             p    == RowMajor(mat_DE.rows, mat_DE.cols)[k]
             idx  == index(vec_var, mat_var.e[p])
         IN  IF prev[idx + 1] = Zero
             THEN [prev EXCEPT ![idx + 1] = mat_DE.e[p]]
             ELSE prev

\* vec_DE = zeros(len(vec_var), 1), then the first k steps of
\*   for it in np.nditer(mat_DE): i, j = multi_index
\*       idx = vec_var.index(mat_var[i, j]); vec_DE[idx] = mat_DE[i, j]
\* (nditer walks the C-contiguous array of mat_DE in row-major order).
RECURSIVE fill_vec_DE(_, _, _, _)
fill_vec_DE(mat_DE, mat_var, vec_var, k) ==
    IF k = 0 THEN [q \in 1 .. Len(vec_var) |-> Zero]
    ELSE LET prev == fill_vec_DE(mat_DE, mat_var, vec_var, k - 1)
             p    == RowMajor(mat_DE.rows, mat_DE.cols)[k]
             idx  == index(vec_var, mat_var.e[p])
         IN  [prev EXCEPT ![idx + 1] = mat_DE.e[p]]

\* DynamicalSystem(vec_DE, sp.Matrix(vec_var), mat_input, constants_values=constants)
DynamicalSystem(state_equation, state, input, constants_values) ==
    [kind |-> "DynamicalSystem", state_equation |-> state_equation,
     state |-> state, input |-> input, constants_values |-> constants_values]

\* The systems the call can return, one per iteration order of the set.
system_from_matrix_DE(mat_DE, mat_var, mat_input, constants) ==
    {DynamicalSystem(
         fill_vec_DE(mat_DE, mat_var, vec_var, mat_DE.rows * mat_DE.cols),
         vec_var, mat_input, constants)
       : vec_var \in list_set(flatten(mat_var))}

\* A derivative matrix of the shape of mat_var: "distinct" has a different
\* expression at every position (inconsistent wherever the state repeats),
\* "consistent" has one expression per state variable.
DEKinds == {"distinct", "consistent"}

DerivativeOf(kind, mat_var) ==
    Matrix(mat_var.rows, mat_var.cols, [p \in DOMAIN mat_var.e |->
        IF kind = "distinct"
        THEN "f_" \o ToString(p[1] + 1) \o ToString(p[2] + 1)
        ELSE "d" \o mat_var.e[p]])

SystemFromMatrixDE ==
    /\ pc = "start"
    /\ \E shape \in Shapes, kind \in DEKinds :
          \E e \in [Pos(shape[1], shape[2]) -> Syms] :
              LET mat_var == Matrix(shape[1], shape[2], e)
                  mat_DE  == DerivativeOf(kind, mat_var)
              IN  /\ args' = [mat_DE |-> mat_DE, mat_var |-> mat_var]
                  /\ ret' \in system_from_matrix_DE(mat_DE, mat_var, None, Dict(<<>>))
    /\ pc' = "built"
    /\ UNCHANGED closure

NextSystem == SystemFromMatrixDE

SpecSystem == Init /\ [][NextSystem]_vars

\* The flat positions (1-based, row-major) at which x occurs in M.
Occurrences(M, x) == {k \in 1 .. M.rows * M.cols : flatten(M)[k] = x}

Min(S) == CHOOSE k \in S : \A l \in S : k <= l

Max(S) == CHOOSE k \in S : \A l \in S : k >= l

\* seq holds every entry of M exactly once.
EachEntryOnce(seq, M) ==
    /\ Len(seq) = Cardinality(Entries(M))
    /\ \A x \in Entries(M) : Cardinality({k \in 1 .. Len(seq) : seq[k] = x}) = 1

C10_LastWriteWins ==
    pc = "built" =>
        /\ Len(ret.state_equation) = Len(ret.state)
        /\ \A k \in 1 .. Len(ret.state) :
              /\ Occurrences(args.mat_var, ret.state[k]) # {}
              /\ ret.state_equation[k]
                   = flatten(args.mat_DE)[Max(Occurrences(args.mat_var, ret.state[k]))]

C10_Witness ==
    /\ pc = "built"
    /\ args.mat_var.rows = 2 /\ args.mat_var.cols = 2
    /\ args.mat_var.e[<<0, 1>>] = args.mat_var.e[<<1, 0>>]
    /\ args.mat_var.e[<<0, 1>>] \notin {args.mat_var.e[<<0, 0>>], args.mat_var.e[<<1, 1>>]}
    /\ args.mat_DE.e[<<0, 1>>] # args.mat_DE.e[<<1, 0>>]
    /\ \E k \in 1 .. Len(ret.state) :
          /\ ret.state[k] = args.mat_var.e[<<1, 0>>]
          /\ ret.state_equation[k] = args.mat_DE.e[<<1, 0>>]

(***************************************************************************)
(* matrix_callable_from_vector_trajectory                                  *)
(*                                                                         *)
(* A 1-D numeric array is a sequence, a time-first batch a sequence of     *)
(* such rows.  A result array is [kind |-> "ndarray", shape, e] with e     *)
(* over 0-based index tuples.                                              *)
(***************************************************************************)
NumTimes == 3

MaxQueries == 2

\* The shapes of the key matrix raveled.
RaveledShapes == {<<1, 1>>, <<1, 2>>, <<2, 1>>, <<2, 2>>}

\* The sample of unique variable v (1-based) at sample time s (1-based):
\* a different number for every (s, v).
Sample(s, v) == 10 * s + v

\* A query: one time, or a list of increasing times; times are sample times.
Float(v) == [kind |-> "float", v |-> v]

Queries ==
    {Float(s) : s \in 1 .. NumTimes}
        \cup {List(q) : q \in {q \in UNION {[1 .. k -> 1 .. NumTimes] : k \in 1 .. MaxQueries} :
                                  \A a, b \in DOMAIN q : a < b => q[a] < q[b]}}

\* callable_from_trajectory(tt, x)(t): the interpolated samples.  At a sample
\* time the interpolant returns the sample.  One time, or a sequence of one
\* time, gives the vector of the unique variables; k > 1 times give a batch
\* indexed time first (k rows, one column per unique variable).
vector_callable(x, t) ==
    IF t.kind = "float" THEN x[t.v]
    ELSE IF Len(t.items) = 1 THEN x[t.items[1]]
    ELSE [s \in 1 .. Len(t.items) |-> x[t.items[s]]]

\* isinstance(t, (list, tuple, np.ndarray)) and len(t) > 1
as_array(t) == t.kind \in {"list", "tuple", "ndarray"} /\ Len(t.items) > 1

\* What the loop body does at a position holding key, for a batch result:
\*   idx = unraveled.index(key); matrix_result[..., i, j] = vector_result[idx]
\* vector_result[idx] is row idx of the batch (IndexError past the last row);
\* its n values are broadcast into the k time slots of the position, which
\* numpy accepts when n = k or n = 1.
batch_step(vector_result, unraveled, key) ==
    LET k   == Len(vector_result)
        n   == Len(vector_result[1])
        idx == index(unraveled, key)
    IN  IF \A q \in 1 .. Len(unraveled) : unraveled[q] # key THEN Raise("ValueError")
        ELSE IF idx >= k THEN Raise("IndexError")
        ELSE IF n # k /\ n # 1 THEN Raise("ValueError")
        ELSE [kind |-> "values",
              v |-> [s \in 1 .. k |->
                        IF n = 1 THEN vector_result[idx + 1][1]
                        ELSE vector_result[idx + 1][s]]]

\* Mutant: the index is taken one too low; index -1 is the last element.
single_step_prev(vector_result, unraveled, key) ==
    IF \A q \in 1 .. Len(unraveled) : unraveled[q] # key THEN Raise("ValueError")
    ELSE LET idx == index(unraveled, key) - 1
         IN  [kind |-> "values",
              v |-> <<vector_result[IF idx < 0 THEN Len(vector_result) ELSE idx + 1]>>]

\* The loop body for a single query time:
\*   idx = unraveled.index(key); matrix_result[i, j] = vector_result[idx]
single_step(vector_result, unraveled, key) ==
    IF \A q \in 1 .. Len(unraveled) : unraveled[q] # key THEN Raise("ValueError")
    ELSE [kind |-> "values", v |-> <<vector_result[index(unraveled, key) + 1]>>]

\* matrix_callable(t) of the closure cl.  np.nditer walks raveled in row-major
\* order; the first exception ends the call.
matrix_callable(cl, t) ==
    LET vector_result == vector_callable(cl.x, t)
        raveled == cl.raveled
        order == RowMajor(raveled.rows, raveled.cols)
        step(p) == IF as_array(t)
                   THEN batch_step(vector_result, cl.unraveled, raveled.e[p])
                   ELSE single_step(vector_result, cl.unraveled, raveled.e[p])
        failed == {q \in 1 .. Len(order) : step(order[q]).kind = "raise"}
    IN  IF failed # {}
        THEN step(order[CHOOSE q \in failed : \A r \in failed : q <= r])
        ELSE IF as_array(t)
             THEN [kind |-> "ndarray",
                   shape |-> <<Len(t.items), raveled.rows, raveled.cols>>,
                   e |-> [i \in Range0(Len(t.items)) \X Range0(raveled.rows)
                                   \X Range0(raveled.cols) |->
                             step(<<i[2], i[3]>>).v[i[1] + 1]]]
             ELSE [kind |-> "ndarray",
                   shape |-> <<raveled.rows, raveled.cols>>,
                   e |-> [p \in Pos(raveled.rows, raveled.cols) |-> step(p).v[1]]]

\* The closure the factory returns: the interpolated samples, the key list
\* (flattened when it came matrix-shaped) and the key matrix.
matrix_callable_from_vector_trajectory(tt, x, unraveled, raveled) ==
    [kind |-> "function", tt |-> tt, x |-> x,
     unraveled |-> IF unraveled.kind = "Matrix" THEN flatten(unraveled)
                   ELSE unraveled.items,
     raveled |-> raveled]

\* The orders of the first n symbols: the unique keys of a trajectory.
KeyLists == UNION {list_set([k \in 1 .. n |-> "x" \o ToString(k)]) : n \in 1 .. NumSyms}

MakeCallable ==
    /\ pc = "start"
    /\ \E keys \in KeyLists, shape \in RaveledShapes, as_matrix \in BOOLEAN :
          \E e \in [Pos(shape[1], shape[2]) -> Syms] :
              LET tt == [s \in 1 .. NumTimes |-> s]
                  x  == [s \in 1 .. NumTimes |-> [v \in 1 .. Len(keys) |-> Sample(s, v)]]
                  unraveled == IF as_matrix
                               THEN Matrix(Len(keys), 1,
                                        [p \in Pos(Len(keys), 1) |-> keys[p[1] + 1]])
                               ELSE List(keys)
              IN  /\ args' = [unraveled |-> unraveled]
                  /\ closure' = matrix_callable_from_vector_trajectory(
                                    tt, x, unraveled, Matrix(shape[1], shape[2], e))
    /\ pc' = "ready"
    /\ ret' = None

CallCallable ==
    /\ pc \in {"ready", "called"}
    /\ \E t \in Queries :
          /\ args' = [t |-> t]
          /\ ret' = matrix_callable(closure, t)
    /\ pc' = "called"
    /\ UNCHANGED closure

NextCallable == MakeCallable \/ CallCallable

SpecCallable == Init /\ [][NextCallable]_vars

\* Every key of raveled is one of the unique keys.
KeysKnown == Entries(closure.raveled) \subseteq {closure.unraveled[q] : q \in DOMAIN closure.unraveled}

\* The 1-based place of key in the unique keys.
PlaceOf(key) == CHOOSE q \in DOMAIN closure.unraveled : closure.unraveled[q] = key

SingleCall ==
    pc = "called" /\ (args.t.kind = "float" \/ Len(args.t.items) = 1) /\ KeysKnown

QueryTime == IF args.t.kind = "float" THEN args.t.v ELSE args.t.items[1]

\* C2: called with one query time (a scalar or a sequence of length 1), the
\* result is shaped like raveled and result[i,j] is the interpolated value of
\* the unique variable at index unraveled.index(raveled[i,j]); positions that
\* hold the same key hold the same value.
C2_SingleQuery ==
    SingleCall =>
        /\ ret.kind = "ndarray"
        /\ ret.shape = <<closure.raveled.rows, closure.raveled.cols>>
        /\ DOMAIN ret.e = DOMAIN closure.raveled.e
        /\ \A p \in DOMAIN ret.e :
              ret.e[p] = Sample(QueryTime, PlaceOf(closure.raveled.e[p]))
        /\ \A p, q \in DOMAIN ret.e :
              closure.raveled.e[p] = closure.raveled.e[q] => ret.e[p] = ret.e[q]

C2_Witness ==
    /\ SingleCall
    /\ args.t = List(<<2>>)
    /\ closure.unraveled = <<"x2", "x3", "x1">>
    /\ closure.raveled.rows = 2 /\ closure.raveled.cols = 2
    /\ closure.raveled.e[<<0, 1>>] = "x1" /\ closure.raveled.e[<<1, 0>>] = "x1"
    /\ closure.raveled.e[<<0, 0>>] = "x3"
    /\ ret.kind = "ndarray"
    /\ ret.e[<<0, 1>>] = Sample(2, 3) /\ ret.e[<<1, 0>>] = Sample(2, 3)
    /\ ret.e[<<0, 0>>] = Sample(2, 2)

\* C3: called with k > 1 query times, the interpolator's batch being indexed
\* time first, the result has shape (k, rows, cols) and result[s,i,j] is the
\* interpolated value at time t[s] of the unique variable at index
\* unraveled.index(raveled[i,j]).
C3_BatchQuery ==
    (pc = "called" /\ args.t.kind = "list" /\ Len(args.t.items) > 1 /\ KeysKnown) =>
        /\ ret.kind = "ndarray"
        /\ ret.shape = <<Len(args.t.items), closure.raveled.rows, closure.raveled.cols>>
        /\ \A i \in DOMAIN ret.e :
              ret.e[i] = Sample(args.t.items[i[1] + 1],
                                PlaceOf(closure.raveled.e[<<i[2], i[3]>>]))

(***************************************************************************)
(* All helpers together.                                                   *)
(***************************************************************************)
Next == NextConstruct \/ NextSubs \/ NextBlock \/ NextSystem \/ NextCallable

Spec == Init /\ [][Next]_vars

====
